---- MODULE Spec2Model ----
(***************************************************************************)
(* Model of ps3838bot.py: the Telegram handler that turns a tip message    *)
(* into a PS3838 wager.  One handler run is a sequence of steps, one per   *)
(* sportsbook call; the sportsbook's answers are chosen by the             *)
(* environment.                                                            *)
(*                                                                         *)
(* Units: odds and odds_tolerance in hundredths (1.85 -> 185); base_stake  *)
(* and min_stake in cents; stake units in 1/10000 U; handicaps in tenths.  *)
(* Text is a sequence of character codes.                                  *)
(***************************************************************************)
EXTENDS Integers, Sequences, FiniteSets, TLC

\* ---------------------------------------------------------------- bounds
MaxMessages == 2
MaxCommands == 1

\* ------------------------------------------------------- Python's values
None == -999999
NoneStr == <<None>>
Falsy(x) == x = None \/ x = 0

\* float("nan"), which float() of lines 413 and 442 accepts; every
\* comparison with it is false and arithmetic on it gives it back.
NaN == -888888
FloatLt(a, b) == a # NaN /\ b # NaN /\ a < b

\* ------------------------------------------------------------------ text
Lower(s) == [i \in DOMAIN s |-> IF s[i] \in 65..90 THEN s[i] + 32 ELSE s[i]]

RECURSIVE LStrip(_)
LStrip(s) == IF s # <<>> /\ Head(s) = 32 THEN LStrip(Tail(s)) ELSE s

RECURSIVE RStrip(_)
RStrip(s) ==
    IF s # <<>> /\ s[Len(s)] = 32 THEN RStrip(SubSeq(s, 1, Len(s) - 1)) ELSE s

Strip(s) == RStrip(LStrip(s))

Fed == <<70, 101, 100>>
FedUpper == <<70, 69, 68>>
Nad == <<78, 97, 100>>
Atp == <<65, 84, 80>>
AtpLower == <<97, 116, 112, 32>>
Wta == <<87, 84, 65>>
\* "Roger Federer", "Rafael Nadal", "ATP Masters"
RogerFederer ==
    <<82, 111, 103, 101, 114, 32, 70, 101, 100, 101, 114, 101, 114>>
RafaelNadal ==
    <<82, 97, 102, 97, 101, 108, 32, 78, 97, 100, 97, 108>>
AtpMasters ==
    <<65, 84, 80, 32, 77, 97, 115, 116, 101, 114, 115>>

\* ---------------------------------------------------------------- config
DEFAULT_CONFIG ==
    [base_stake |-> 500, min_stake |-> 500, odds_tolerance |-> 1,
     allow_tennis |-> TRUE, allow_football |-> TRUE]

\* -------------------------------------------------------------- messages
\* A message, as the regular expressions of parse_message see it:
\*   keywords  the sport keywords that occur in the text
\*   vs        whether a line matches "(.+)\s+vs\s+(.+)", with its groups
\*   next      the line after the vs line: "none", "clock" (matches
\*             \d{1,2}:\d{2}) or "text" with nextText
\*   bet       whether the bet template matches, with its groups
\*             (handicap None when the optional group is absent)
\*   cond      the threshold of "No bet under <x>", None when absent
Msg(kw, vs, nxt, txt, bet, market, sel, hcp, odds, units, cond) ==
    [keywords |-> kw, vs |-> vs, home |-> Fed, away |-> Nad,
     next |-> nxt, nextText |-> txt,
     bet |-> bet, market |-> market, selection |-> sel, handicap |-> hcp,
     odds |-> odds, units |-> units, cond |-> cond]

\* The three lines of the sample tip: "Roger Federer vs Rafael Nadal",
\* "ATP Masters", "ML Match : Roger Federer @ 1.85 (2 U)".  No sport keyword
\* occurs in them.
ScenarioA ==
    [Msg({}, TRUE, "text", AtpMasters, TRUE, "ML Match", RogerFederer, None,
         185, 20000, None)
     EXCEPT !.home = RogerFederer, !.away = RafaelNadal]

\* The same tip with a first line "Tennis".
ScenarioATennis == [ScenarioA EXCEPT !.keywords = {"Tennis"}]

Messages ==
    { ScenarioA, ScenarioATennis,
      Msg({"Tennis"}, TRUE, "text", Atp, TRUE, "ML Match", Fed, None, 185, 20000, None),
      Msg({"Tennis"}, TRUE, "text", Atp, TRUE, "ML Match", Nad, None, 185, 20000, 150),
      Msg({"Tennis"}, TRUE, "clock", <<>>, TRUE, "ML Match", Fed, None, 185, 20000, None),
      Msg({"Tennis"}, TRUE, "none", <<>>, TRUE, "ML Match", Fed, None, 185, 20000, 150),
      Msg({"Tennis"}, TRUE, "text", Atp, TRUE, "HDP Match", Fed, -15, 190, 10000, 150),
      Msg({"Soccer"}, TRUE, "text", Atp, TRUE, "HDP Match", FedUpper, None, 190, 10000, None),
      Msg({"Tennis"}, TRUE, "text", Atp, TRUE, "ML Match", Fed, None, 140, 20000, 150),
      Msg({"Tennis"}, TRUE, "text", Atp, TRUE, "ML Match", Fed, None, 185, 5000, None),
      Msg({"Tennis"}, TRUE, "text", Atp, TRUE, "ML Match", Fed, None, 185, 9995, None),
      Msg({"Tennis"}, TRUE, "text", Atp, TRUE, "ML Match", Fed, 15, 185, 20000, None),
      Msg({"Tennis"}, TRUE, "text", Atp, FALSE, "ML Match", Fed, None, 185, 20000, None),
      Msg({"Tennis"}, FALSE, "none", <<>>, TRUE, "ML Match", Fed, None, 185, 20000, None),
      Msg({}, TRUE, "text", Atp, TRUE, "ML Match", Fed, None, 185, 20000, None) }

NoMsg == Msg({}, FALSE, "none", <<>>, FALSE, "", <<>>, None, None, None, None)

\* ----------------------------------------------------------------- state
VARIABLES
    config,     \* the global config dict
    saved,      \* the contents of config.json
    message_text, \* the message of the current run
    reply,      \* the event.reply of the last command, "" once the next
                \* message is handled
    commands,   \* number of commands handled
    pc,         \* where the handler run stands
    handled,    \* number of messages the handler has been started for
    nextUuid,   \* the next value uuid.uuid4() returns
    bet_info,   \* the bet_info dict of the current run
    calls,      \* the sportsbook calls of the current run, in order
    line_req,   \* params of the /v2/line request of parse_message
    line_data,  \* the /v2/line response of parse_message
    payload,    \* the JSON body of POST /v2/bets/place
    result,     \* the response to POST /v2/bets/place
    notes,      \* the log_message notifications of the current run, in order
    outcome     \* "running", "returned", or "raised" (exception left handler)

vars == <<config, saved, message_text, reply, commands, pc, handled,
          nextUuid, bet_info, calls, line_req, line_data, payload, result, notes,
          outcome>>

\* What only the command branch of the handler writes, besides config.
cmdVars == <<saved, reply, commands>>

\* config.json does not exist (line 20).
NoFile ==
    [base_stake |-> None, min_stake |-> None, odds_tolerance |-> None,
     allow_tennis |-> FALSE, allow_football |-> FALSE]

NoBet ==
    [uuid |-> None, sport |-> "Other", sportId |-> None, home |-> <<>>,
     away |-> <<>>, title |-> NoneStr, market_type |-> "", selection |-> <<>>,
     selection_type |-> "", handicap |-> None, odds |-> None, stake |-> None,
     min_odds |-> None, eventId |-> None, leagueId |-> None,
     parentId |-> None, lineId |-> None, api_odds |-> None,
     altLineId |-> None]

NoLineReq ==
    [leagueId |-> None, eventId |-> None, betType |-> "", team |-> "",
     handicap |-> None]

NoLineData == [price |-> None, lineId |-> None, altLineId |-> None]

NoPayload ==
    [uniqueRequestId |-> None, stake |-> None, lineId |-> None,
     altLineId |-> None, sportId |-> None, eventId |-> None, betType |-> "",
     team |-> "", handicap |-> None]

NoResult == [status |-> "", betId |-> None]

\* ------------------------------------------------------- parse_message
\* Lines 54-58: sport classification by keyword.
SportOf(m) ==
    IF "Tennis" \in m.keywords THEN "Tennis"
    ELSE IF "Football" \in m.keywords \/ "Soccer" \in m.keywords THEN "Football"
    ELSE "Other"

\* Lines 73-81: the line after the vs line, unless it is clock-like.
TitleOf(m) == IF m.next = "text" THEN Strip(m.nextText) ELSE NoneStr

\* StakeEur without the multiplication by the units.
StakeEur_ignoresUnits(m, cfg) ==
    IF cfg.base_stake = NaN THEN NaN ELSE cfg.base_stake * 10000

\* Line 93: base_stake * stake_units, in 10^-6 EUR.
StakeEur(m, cfg) ==
    IF cfg.base_stake = NaN THEN NaN ELSE cfg.base_stake * m.units

\* Line 122: round(stake_eur, 2), in cents.
Round2(x) == IF x = NaN THEN NaN ELSE (x + 5000) \div 10000

\* Line 101: the threshold of "No bet under", 0.0 when absent.
MinOddsOf(m) == IF m.cond = None THEN 0 ELSE m.cond

\* ParseReject without the allow_tennis / allow_football test of lines 60-61.
ParseReject_ignoresConfig(m, cfg) ==
    IF SportOf(m) = "Other" THEN "SportNotAllowed"
    ELSE IF ~m.vs THEN "NoMatchPattern"
    ELSE IF ~m.bet THEN "NoBetTemplate"
    ELSE IF FloatLt(StakeEur(m, cfg), cfg.min_stake * 10000)
    THEN "StakeTooSmall"
    ELSE IF FloatLt(m.odds + cfg.odds_tolerance, MinOddsOf(m))
    THEN "OddsBelowThreshold"
    ELSE ""

\* Lines 60-104: the reason the local part of parse_message returns None,
\* "" when it goes on to build bet_info.
ParseReject(m, cfg) ==
    LET sport == SportOf(m) IN
    IF \/ (sport = "Tennis" /\ ~cfg.allow_tennis)
       \/ (sport = "Football" /\ ~cfg.allow_football)
       \/ sport = "Other"
    THEN "SportNotAllowed"
    ELSE IF ~m.vs THEN "NoMatchPattern"
    ELSE IF ~m.bet THEN "NoBetTemplate"
    ELSE IF FloatLt(StakeEur(m, cfg), cfg.min_stake * 10000)
    THEN "StakeTooSmall"
    ELSE IF FloatLt(m.odds + cfg.odds_tolerance, MinOddsOf(m))
    THEN "OddsBelowThreshold"
    ELSE ""

\* Lines 110-124: the bet_info dict.
BetInfo(m, cfg, uuid) ==
    [NoBet EXCEPT
        !.uuid = uuid,
        !.sport = SportOf(m),
        !.sportId = IF SportOf(m) = "Tennis" THEN 33 ELSE 29,
        !.home = Strip(m.home),
        !.away = Strip(m.away),
        !.title = TitleOf(m),
        !.market_type = m.market,
        !.selection = Strip(m.selection),
        !.selection_type =
            IF Strip(m.home) = Strip(m.selection) THEN "home" ELSE "away",
        !.handicap = m.handicap,
        !.odds = m.odds,
        !.stake = Round2(StakeEur(m, cfg)),
        !.min_odds = MinOddsOf(m)]

\* ------------------------------------------------------------- fixtures
\* An event of the fixtures response; parentId None when the key is absent.
Ev(id, parent, status, home) ==
    [id |-> id, parentId |-> parent, status |-> status, home |-> home,
     away |-> Nad]

League(name, id, events) == [name |-> name, id |-> id, events |-> events]

\* A response: raise (requests raised, e.g. a timeout), the HTTP status
\* code, and the decoded body.
FixturesResponses ==
    { [raise |-> TRUE, status |-> 0, league |-> <<>>],
      [raise |-> FALSE, status |-> 500, league |-> <<>>],
      [raise |-> FALSE, status |-> 200, league |-> <<>>],
      [raise |-> FALSE, status |-> 200,
       league |-> << League(Wta, 20, <<Ev(5, None, "O", Fed)>>) >>],
      [raise |-> FALSE, status |-> 200,
       league |-> << League(Wta, 20, <<Ev(5, None, "O", Fed)>>),
                     League(Atp, 10, <<Ev(1, None, "O", Fed)>>) >>],
      [raise |-> FALSE, status |-> 200,
       league |-> << League(AtpLower, 10,
                        <<Ev(2, 1, "O", FedUpper), Ev(1, None, "O", Fed)>>) >>],
      [raise |-> FALSE, status |-> 200,
       league |-> << League(Atp, 10,
                        <<Ev(1, None, "H", Fed), Ev(3, 1, "O", Fed)>>) >>] }

\* Lines 158-174: whether the event matches the bet, first lookup.
EventMatches(event, b) ==
    IF b.market_type = "HDP Match"
    THEN /\ event.status = "O"
         /\ Lower(Strip(event.home)) = Lower(b.home)
         /\ Lower(Strip(event.away)) = Lower(b.away)
    ELSE /\ Lower(Strip(event.home)) = Lower(b.home)
         /\ Lower(Strip(event.away)) = Lower(b.away)

\* Lines 157-174: index of the first matching event of a league, 0 if none.
RECURSIVE FirstEvent(_, _, _)
FirstEvent(events, i, b) ==
    IF i > Len(events) THEN 0
    ELSE IF EventMatches(events[i], b) THEN i
    ELSE FirstEvent(events, i + 1, b)

\* Lines 154-177: the loop over leagues; acc is (event_id, league_id,
\* parent_id) as the loop has left them so far.
RECURSIVE ScanLeagues(_, _, _, _)
ScanLeagues(leagues, i, b, acc) ==
    IF i > Len(leagues) THEN acc
    ELSE LET league == leagues[i] IN
         IF Lower(Strip(league.name)) # Lower(b.title)
         THEN ScanLeagues(leagues, i + 1, b, acc)
         ELSE LET k == FirstEvent(league.events, 1, b)
                  acc2 == IF k = 0 THEN acc
                          ELSE [eventId |-> league.events[k].id,
                                leagueId |-> league.id,
                                parentId |-> league.events[k].parentId]
              IN IF ~Falsy(acc2.eventId) THEN acc2
                 ELSE ScanLeagues(leagues, i + 1, b, acc2)

\* Line 155: bet_info["title"].lower() raises AttributeError when the title
\* is None and the loop body runs at all.
TitleLowerRaises(b, leagues) == b.title = NoneStr /\ Len(leagues) > 0

Resolve(b, leagues) ==
    ScanLeagues(leagues, 1, b,
                [eventId |-> None, leagueId |-> None, parentId |-> None])

\* ----------------------------------------------------------------- line
LineResponses ==
    { [raise |-> TRUE, status |-> 0, price |-> None, lineId |-> None,
       altLineId |-> None],
      [raise |-> FALSE, status |-> 500, price |-> None, lineId |-> None,
       altLineId |-> None] }
    \cup
    [raise : {FALSE}, status : {200}, price : {None, 140, 150, 185},
     lineId : {None, 7}, altLineId : {None, 8}]

\* Lines 192-201: the params of GET /v2/line.
LineParams(b) ==
    [leagueId |-> b.leagueId,
     eventId |-> IF ~Falsy(b.parentId) /\ b.market_type = "ML Match"
                 THEN b.parentId ELSE b.eventId,
     betType |-> IF b.market_type = "ML Match" THEN "MONEYLINE" ELSE "SPREAD",
     team |-> IF b.selection_type = "home" THEN "TEAM1" ELSE "TEAM2",
     handicap |-> IF ~Falsy(b.handicap) THEN b.handicap ELSE 0]

\* Line 219: line_data.get("price", 0.0).
ApiOdds(data) == IF data.price = None THEN 0 ELSE data.price

\* LineAccepts without the comparison of lines 227-229.
LineAccepts_noMinimum(data, b) ==
    ~(Falsy(ApiOdds(data)) \/ Falsy(data.lineId))

\* LineAccepts comparing the quoted odds plus tolerance, as line 102 does.
LineAccepts_quoted(data, b) ==
    /\ ~(Falsy(ApiOdds(data)) \/ Falsy(data.lineId))
    /\ ~(b.odds + config.odds_tolerance < b.min_odds)

\* Lines 223-229: the line is taken.
LineAccepts(data, b) ==
    /\ ~(Falsy(ApiOdds(data)) \/ Falsy(data.lineId))
    /\ ~(ApiOdds(data) < b.min_odds)

\* ------------------------------------------------- check_line_and_validate
\* Lines 266-272: whether the event matches the bet, second lookup.
CheckEventMatches(event, b) ==
    /\ (IF event.parentId = None THEN 0 ELSE event.parentId) = 0
    /\ Lower(Strip(event.home)) = Lower(b.home)
    /\ Lower(Strip(event.away)) = Lower(b.away)

RECURSIVE CheckFirstEvent(_, _, _)
CheckFirstEvent(events, i, b) ==
    IF i > Len(events) THEN 0
    ELSE IF CheckEventMatches(events[i], b) THEN i
    ELSE CheckFirstEvent(events, i + 1, b)

\* Lines 260-278: the loop over leagues; acc is event_id so far.
RECURSIVE CheckScan(_, _, _, _)
CheckScan(leagues, i, b, acc) ==
    IF i > Len(leagues) THEN acc
    ELSE LET league == leagues[i] IN
         IF Lower(Strip(league.name)) # Lower(b.title)
         THEN CheckScan(leagues, i + 1, b, acc)
         ELSE LET k == CheckFirstEvent(league.events, 1, b)
                  acc2 == IF k = 0 THEN acc ELSE league.events[k].id
              IN IF ~Falsy(acc2) THEN acc2
                 ELSE CheckScan(leagues, i + 1, b, acc2)

\* Lines 246-262: what ends in the except clause of line 328: requests
\* raising, the NameError of line 253 (f_debug_file is not defined in this
\* function) on a bad status or empty body, the AttributeError of line 262.
CheckFixturesRaises(r, b) ==
    r.raise \/ r.status # 200 \/ TitleLowerRaises(b, r.league)

OddsEvent(id, periods) == [id |-> id, periods |-> periods]

OddsResponses ==
    { [raise |-> TRUE, status |-> 0, events |-> <<>>],
      [raise |-> FALSE, status |-> 500, events |-> <<>>],
      [raise |-> FALSE, status |-> 200, events |-> <<>>],
      [raise |-> FALSE, status |-> 200,
       events |-> <<OddsEvent(1, <<>>)>>],
      [raise |-> FALSE, status |-> 200,
       events |-> <<OddsEvent(3, <<[lineId |-> 6]>>),
                    OddsEvent(1, <<[lineId |-> 7], [lineId |-> 9]>>)>>],
      [raise |-> FALSE, status |-> 200,
       events |-> <<OddsEvent(1, <<[lineId |-> 9]>>)>>] }

\* Lines 308-310: index of the first event of the odds response (its
\* leagues' events in order) with the bet's eventId, 0 if none.
RECURSIVE FindOdds(_, _, _)
FindOdds(events, i, b) ==
    IF i > Len(events) THEN 0
    ELSE IF events[i].id = b.eventId THEN i
    ELSE FindOdds(events, i + 1, b)

\* ------------------------------------------------------------- place_bet
PlaceResponses ==
    { [raise |-> TRUE, status |-> "", betId |-> None],
      [raise |-> FALSE, status |-> "ACCEPTED", betId |-> 77],
      [raise |-> FALSE, status |-> "PROCESSED_WITH_ERROR", betId |-> None] }

\* Payload with a token drawn anew when the request is built.
Payload_newToken(b) ==
    [uniqueRequestId |-> nextUuid,
     stake |-> b.stake,
     lineId |-> b.lineId,
     altLineId |-> IF b.market_type = "ML Match" THEN None ELSE b.altLineId,
     sportId |-> b.sportId,
     eventId |-> b.eventId,
     betType |-> IF b.market_type = "ML Match" THEN "MONEYLINE" ELSE "SPREAD",
     team |-> IF b.selection_type = "home" THEN "TEAM1" ELSE "TEAM2",
     handicap |-> IF b.market_type = "ML Match" THEN None ELSE b.handicap]

\* Lines 341-359: the placement request.
Payload(b) ==
    [uniqueRequestId |-> b.uuid,
     stake |-> b.stake,
     lineId |-> b.lineId,
     altLineId |-> IF b.market_type = "ML Match" THEN None ELSE b.altLineId,
     sportId |-> b.sportId,
     eventId |-> b.eventId,
     betType |-> IF b.market_type = "ML Match" THEN "MONEYLINE" ELSE "SPREAD",
     team |-> IF b.selection_type = "home" THEN "TEAM1" ELSE "TEAM2",
     handicap |-> IF b.market_type = "ML Match" THEN None ELSE b.handicap]

\* Lines 46-51: log_message.
log_message(log, msg) == Append(log, msg)

\* The outcome of a requests call as the code tells them apart.
HttpResult(r) ==
    IF r.raise THEN "raise" ELSE IF r.status = 200 THEN "ok" ELSE "http"

Call(api, res) == [api |-> api, result |-> res]

\* -------------------------------------------------------------- commands
\* A command as lines 397-398 see it: the lower-cased first token and
\* parts[1].  arg.kind is "none" (len(parts) = 1), "float" (float() returns
\* value: cents for /stake, hundredths for /odds) or "word" (float() raises
\* ValueError; word is the lower-cased token).
NoArg == [kind |-> "none", value |-> None, word |-> ""]
FloatArg(v) == [kind |-> "float", value |-> v, word |-> ""]
WordArg(w) == [kind |-> "word", value |-> None, word |-> w]

Cmd(name, arg) == [name |-> name, arg |-> arg]

Commands ==
    { Cmd("/help", NoArg),
      Cmd("/showconfig", NoArg),
      Cmd("/stake", NoArg),
      Cmd("/stake", FloatArg(1000)),
      Cmd("/stake", FloatArg(300)),
      Cmd("/stake", FloatArg(NaN)),
      Cmd("/stake", WordArg("ten")),
      Cmd("/sports", WordArg("tennis")),
      Cmd("/sports", WordArg("football")),
      Cmd("/sports", WordArg("both")),
      Cmd("/sports", WordArg("golf")),
      Cmd("/odds", FloatArg(5)),
      Cmd("/odds", FloatArg(-5)),
      Cmd("/odds", WordArg("high")) }

\* The outcome of the command branch: the config it leaves, whether
\* save_config ran, and the reply ("" when none is sent).
Done(cfg, save, text) == [config |-> cfg, save |-> save, reply |-> text]

\* Lines 411-421: /stake <value>.
Stake(cfg, arg) ==
    IF arg.kind = "word" THEN Done(cfg, FALSE, "stake_invalid")
    ELSE IF FloatLt(arg.value, cfg.min_stake)
    THEN Done(cfg, FALSE, "stake_minimum")
    ELSE Done([cfg EXCEPT !.base_stake = arg.value], TRUE, "stake_updated")

\* Lines 423-438: /sports <choice>.
Sports(cfg, arg) ==
    IF arg.word = "tennis"
    THEN Done([cfg EXCEPT !.allow_tennis = TRUE, !.allow_football = FALSE],
              TRUE, "sports_updated")
    ELSE IF arg.word = "football"
    THEN Done([cfg EXCEPT !.allow_tennis = FALSE, !.allow_football = TRUE],
              TRUE, "sports_updated")
    ELSE IF arg.word = "both"
    THEN Done([cfg EXCEPT !.allow_tennis = TRUE, !.allow_football = TRUE],
              TRUE, "sports_updated")
    ELSE Done(cfg, FALSE, "sports_usage")

\* Lines 440-447: /odds <tolerance>.
Odds(cfg, arg) ==
    IF arg.kind = "word" THEN Done(cfg, FALSE, "odds_invalid")
    ELSE Done([cfg EXCEPT !.odds_tolerance = arg.value], TRUE, "odds_updated")

\* Lines 396-453: the command branch of the handler.
RunCommand(cfg, c) ==
    IF c.name = "/help" THEN Done(cfg, FALSE, "help")
    ELSE IF c.name = "/stake" /\ c.arg.kind # "none" THEN Stake(cfg, c.arg)
    ELSE IF c.name = "/sports" /\ c.arg.kind # "none" THEN Sports(cfg, c.arg)
    ELSE IF c.name = "/odds" /\ c.arg.kind # "none" THEN Odds(cfg, c.arg)
    ELSE IF c.name = "/showconfig" THEN Done(cfg, FALSE, "showconfig")
    ELSE Done(cfg, FALSE, "")

\* ---------------------------------------------------------------- steps
Init ==
    /\ config = DEFAULT_CONFIG
    /\ saved = NoFile
    /\ message_text = NoMsg
    /\ reply = ""
    /\ commands = 0
    /\ pc = "idle"
    /\ handled = 0
    /\ nextUuid = 1
    /\ bet_info = NoBet
    /\ calls = <<>>
    /\ line_req = NoLineReq
    /\ line_data = NoLineData
    /\ payload = NoPayload
    /\ result = NoResult
    /\ notes = <<>>
    /\ outcome = "returned"

\* The handler returns (lines 457, 475-477 and the returns they follow).
Return(log) ==
    /\ notes' = log
    /\ pc' = "done"
    /\ outcome' = "returned"

\* An exception leaves parse_message and the handler (no try around line 456).
Raise ==
    /\ pc' = "done"
    /\ outcome' = "raised"
    /\ UNCHANGED notes

\* Line 477: parse_message returned None.
Ignored == Return(log_message(notes, "ignored"))

\* Lines 336-338: check_line_and_validate logged why and returned False.
Skipped(why) == Return(log_message(log_message(notes, why), "skipped"))

\* Lines 392-396, 456, 53-126: a message that is no command arrives; the
\* part of parse_message before its first request.
HandlerStart ==
    \E m \in Messages :
        /\ pc = "idle"
        /\ handled < MaxMessages
        /\ handled' = handled + 1
        /\ message_text' = m
        /\ reply' = ""
        /\ IF ParseReject(m, config) # ""
           THEN /\ Ignored
                /\ UNCHANGED <<bet_info, nextUuid>>
           ELSE /\ bet_info' = BetInfo(m, config, nextUuid)
                /\ nextUuid' = nextUuid + 1
                /\ pc' = "fixtures"
                /\ outcome' = "running"
                /\ UNCHANGED notes
        /\ UNCHANGED <<config, saved, commands, calls, line_req, line_data,
                       payload, result>>

\* Lines 128-187: GET /v3/fixtures and the event lookup of parse_message.
FixturesQuery ==
    \E r \in FixturesResponses :
        /\ pc = "fixtures"
        /\ calls' = Append(calls, Call("fixtures", HttpResult(r)))
        /\ IF r.raise
           THEN Raise /\ UNCHANGED bet_info
           ELSE IF r.status # 200
           THEN Ignored /\ UNCHANGED bet_info
           ELSE IF TitleLowerRaises(bet_info, r.league)
           THEN Raise /\ UNCHANGED bet_info
           ELSE LET found == Resolve(bet_info, r.league) IN
                IF Falsy(found.eventId) \/ Falsy(found.leagueId)
                THEN Ignored /\ UNCHANGED bet_info
                ELSE /\ bet_info' = [bet_info EXCEPT
                                        !.eventId = found.eventId,
                                        !.leagueId = found.leagueId,
                                        !.parentId = found.parentId]
                     /\ pc' = "line"
                     /\ UNCHANGED <<notes, outcome>>
        /\ UNCHANGED <<config, cmdVars, message_text, handled, nextUuid, line_req,
                       line_data, payload, result>>

\* Lines 189-236 and 457-473: GET /v2/line, the odds check, and the
\* "Bet Detected" notification of the handler.
LineQuery ==
    \E r \in LineResponses :
        /\ pc = "line"
        /\ calls' = Append(calls, Call("line", HttpResult(r)))
        /\ line_req' = LineParams(bet_info)
        /\ IF r.raise
           THEN Raise /\ UNCHANGED <<bet_info, line_data>>
           ELSE IF r.status # 200
           THEN Ignored /\ UNCHANGED <<bet_info, line_data>>
           ELSE /\ line_data' = [price |-> r.price, lineId |-> r.lineId,
                                 altLineId |-> r.altLineId]
                /\ IF ~LineAccepts(line_data', bet_info)
                   THEN Ignored /\ UNCHANGED bet_info
                   ELSE /\ bet_info' = [bet_info EXCEPT
                                           !.lineId = r.lineId,
                                           !.api_odds = ApiOdds(line_data'),
                                           !.altLineId = r.altLineId]
                        /\ notes' = log_message(notes, "detected")
                        /\ pc' = "check_fixtures"
                        /\ UNCHANGED outcome
        /\ UNCHANGED <<config, cmdVars, message_text, handled, nextUuid, payload,
                       result>>

\* Lines 244-283: GET /v3/fixtures and the event lookup of
\* check_line_and_validate.
CheckFixtures ==
    \E r \in FixturesResponses :
        /\ pc = "check_fixtures"
        /\ calls' = Append(calls, Call("fixtures", HttpResult(r)))
        /\ IF CheckFixturesRaises(r, bet_info)
           THEN Skipped("check_error") /\ UNCHANGED bet_info
           ELSE LET event_id == CheckScan(r.league, 1, bet_info, None) IN
                /\ bet_info' = IF event_id = None THEN bet_info
                               ELSE [bet_info EXCEPT !.eventId = event_id]
                /\ IF Falsy(event_id)
                   THEN Skipped("no_event")
                   ELSE pc' = "check_odds" /\ UNCHANGED <<notes, outcome>>
        /\ UNCHANGED <<config, cmdVars, message_text, handled, nextUuid, line_req,
                       line_data, payload, result>>

\* Lines 285-330: GET /v3/odds and the lookup of the event's first period.
CheckOdds ==
    \E r \in OddsResponses :
        /\ pc = "check_odds"
        /\ calls' = Append(calls, Call("odds", HttpResult(r)))
        /\ IF r.raise
           THEN Skipped("check_error") /\ UNCHANGED bet_info
           ELSE IF r.status # 200
           THEN Skipped("odds_api_error") /\ UNCHANGED bet_info
           ELSE LET k == FindOdds(r.events, 1, bet_info) IN
                IF k = 0
                THEN Skipped("not_in_odds") /\ UNCHANGED bet_info
                ELSE IF r.events[k].periods = <<>>
                THEN Skipped("no_periods") /\ UNCHANGED bet_info
                ELSE /\ bet_info' = [bet_info EXCEPT
                                        !.lineId = r.events[k].periods[1].lineId]
                     /\ pc' = "place"
                     /\ UNCHANGED <<notes, outcome>>
        /\ UNCHANGED <<config, cmdVars, message_text, handled, nextUuid, line_req,
                       line_data, payload, result>>

\* PlaceBet posting again after a failed post.
PlaceBet_retry ==
    \E r \in PlaceResponses :
        /\ pc = "place"
        /\ payload' = Payload(bet_info)
        /\ calls' = Append(calls, Call("place", IF r.raise THEN "raise" ELSE "ok"))
        /\ IF r.raise
           THEN /\ notes' = log_message(notes, "place_error")
                /\ UNCHANGED <<result, pc, outcome>>
           ELSE /\ Return(log_message(notes, "placed_ok"))
                /\ result' = [status |-> r.status, betId |-> r.betId]
        /\ UNCHANGED <<config, cmdVars, message_text, handled, nextUuid, bet_info,
                       line_req, line_data>>

\* Lines 340-385: POST /v2/bets/place and the notification that follows.
PlaceBet ==
    \E r \in PlaceResponses :
        /\ pc = "place"
        /\ payload' = Payload(bet_info)
        /\ calls' = Append(calls, Call("place", IF r.raise THEN "raise" ELSE "ok"))
        /\ IF r.raise
           THEN /\ Return(log_message(notes, "place_error"))
                /\ UNCHANGED result
           ELSE /\ Return(log_message(notes, "placed_ok"))
                /\ result' = [status |-> r.status, betId |-> r.betId]
        /\ UNCHANGED <<config, cmdVars, message_text, handled, nextUuid, bet_info,
                       line_req, line_data>>

\* Lines 389-453: the handler runs for a command.  The client is created
\* without sequential_updates (line 389), so each update gets its own
\* task: a command is handled when no bet message is in the pipeline, and
\* also while a pipeline run is suspended in the await of line 473.  The
\* branch has no await before its reply, so it runs in one step.
HandleCommand ==
    \E c \in Commands :
        /\ pc \in {"idle", "check_fixtures"}
        /\ commands < MaxCommands
        /\ commands' = commands + 1
        /\ LET done == RunCommand(config, c) IN
              /\ config' = done.config
              /\ saved' = IF done.save THEN done.config ELSE saved
              /\ reply' = done.reply
        /\ UNCHANGED <<message_text, pc, handled, nextUuid, bet_info, calls,
                       line_req, line_data, payload, result, notes, outcome>>

\* The handler coroutine is over: its locals are gone and the client waits
\* for the next message (line 501).
Ready ==
    /\ pc = "done"
    /\ pc' = "idle"
    /\ bet_info' = NoBet
    /\ calls' = <<>>
    /\ line_req' = NoLineReq
    /\ line_data' = NoLineData
    /\ payload' = NoPayload
    /\ result' = NoResult
    /\ notes' = <<>>
    /\ outcome' = "returned"
    /\ message_text' = NoMsg
    /\ reply' = ""
    /\ UNCHANGED <<config, saved, commands, handled, nextUuid>>

Next ==
    \/ HandlerStart
    \/ FixturesQuery
    \/ LineQuery
    \/ CheckFixtures
    \/ CheckOdds
    \/ PlaceBet
    \/ HandleCommand
    \/ Ready

Spec == Init /\ [][Next]_vars

\* --------------------------------------------------------------- claims
Indices(api) == {i \in DOMAIN calls : calls[i].api = api}

Placed == Indices("place") # {}

Parsed == bet_info.uuid # None

\* C1: a placement request is issued only in a run whose message parsed,
\* whose event and league were resolved from an answered fixture query, and
\* whose line query, issued before the placement, returned a price and a
\* lineId with price >= the signal's minimum odds; no run with an "ignored"
\* or "skipped" outcome issues one.
PlacementOnlyAfterValidation ==
    \A p \in Indices("place") :
        /\ Parsed
        /\ \E f \in Indices("fixtures"), l \in Indices("line") :
              /\ f < l /\ l < p
              /\ calls[f].result = "ok" /\ calls[l].result = "ok"
        /\ ~Falsy(line_req.eventId) /\ ~Falsy(line_req.leagueId)
        /\ ~Falsy(line_data.price) /\ ~Falsy(line_data.lineId)
        /\ line_data.price >= bet_info.min_odds
        /\ \A i \in 1..(p - 1) : calls[i].result = "ok"
        /\ \A n \in DOMAIN notes : notes[n] \notin {"ignored", "skipped"}

PlacementOnlyAfterValidation_witness ==
    /\ Placed
    /\ bet_info.min_odds = 150
    /\ line_data.price = 150

\* C2: when the handler run for a message is over, exactly one notification
\* has been sent for it.
ExactlyOneNotification == pc = "done" => Len(notes) = 1

\* C3: the lineId, altLineId (for spread) and eventId of the placement
\* request are those of the line query whose price was checked.
PlacementUsesValidatedLine ==
    Placed =>
        /\ payload.lineId = line_data.lineId
        /\ payload.eventId = line_req.eventId
        /\ (payload.betType = "SPREAD" => payload.altLineId = line_data.altLineId)

\* C4: the request id is drawn once, when the message parses, and no later
\* stage changes it: through the whole run the signal carries the id drawn
\* at parse time, and the placement request sends that id.
RequestIdStable ==
    /\ Parsed => bet_info.uuid = nextUuid - 1
    /\ Placed => payload.uniqueRequestId = nextUuid - 1
    /\ nextUuid - 1 <= handled

RequestIdStable_witness ==
    /\ Placed
    /\ payload.uniqueRequestId = 2

\* C5: a run submits at most one placement request, and the placement is
\* the last step of its run whether it succeeded or failed.
AtMostOnePlacement ==
    /\ Cardinality(Indices("place")) <= 1
    /\ Placed => pc = "done" /\ calls[Len(calls)].api = "place"

AtMostOnePlacement_witness ==
    /\ Placed
    /\ calls[Len(calls)].result = "raise"
    /\ "place_error" \in {notes[n] : n \in DOMAIN notes}

\* C6: no stage runs again once a later stage has run (no fixture query
\* after the line query), and a run that returned without placing reports
\* its failure exactly once.
StagesStrictlyForward ==
    /\ \A l \in Indices("line"), f \in Indices("fixtures") : f < l
    /\ (pc = "done" /\ outcome = "returned" /\ ~Placed) => Len(notes) = 1

\* C7: when a sportsbook call raises (timeout, network error), no later
\* call is made, the operator is notified and the handler returns normally.
TransportFailureReported ==
    \A i \in DOMAIN calls :
        (calls[i].result = "raise" /\ pc = "done") =>
            /\ i = Len(calls)
            /\ notes # <<>>
            /\ outcome = "returned"

\* C8: a success notification is sent only for a bet the sportsbook accepted.
NoSuccessForRejectedBet ==
    "placed_ok" \in {notes[n] : n \in DOMAIN notes} => result.status = "ACCEPTED"

\* C9: a parsed signal without a league title, whatever the fixture catalog
\* that was returned, is reported to the operator as ignored, with no line
\* query and no placement request.
UnsetTitleIsIgnored ==
    (/\ Parsed /\ bet_info.title = NoneStr /\ pc = "done"
     /\ calls[1].result = "ok") =>
        /\ notes = <<"ignored">>
        /\ outcome = "returned"
        /\ Indices("line") = {} /\ ~Placed

\* The line query of this run was answered and its body decoded.
LineAnswered == line_data # NoLineData

\* The line was accepted: parse_message stored its price on the signal.
LineTaken == bet_info.api_odds # None

\* C10 as stated: the line is accepted exactly when the live price is >= the
\* minimum acceptable odds, and is never placed when the price is below it.
LineTakenIffPriceAtLeastMinimum ==
    LineAnswered =>
        /\ LineTaken <=> ApiOdds(line_data) >= bet_info.min_odds
        /\ ApiOdds(line_data) < bet_info.min_odds => ~Placed

\* C10 amended: the line is accepted exactly when the response carries a
\* non-zero price and a lineId and that live price is >= the minimum
\* acceptable odds; when the live price is below the minimum the run ends
\* ignored with no placement request.
LineTakenIffAvailableAndPriceAtLeastMinimum ==
    LineAnswered =>
        /\ LineTaken <=>
              /\ ~Falsy(ApiOdds(line_data))
              /\ ~Falsy(line_data.lineId)
              /\ ApiOdds(line_data) >= bet_info.min_odds
        /\ ApiOdds(line_data) < bet_info.min_odds =>
              /\ ~Placed
              /\ pc = "done"
              /\ notes = <<"ignored">>

LineTakenIffAvailableAndPriceAtLeastMinimum_witness ==
    /\ LineAnswered
    /\ line_data.price = 140
    /\ line_data.lineId = 7
    /\ bet_info.min_odds = 150
    /\ bet_info.odds = 185
    /\ pc = "done"

\* The sport of the message is switched off in the config.
SportDisabled(m, cfg) ==
    \/ SportOf(m) = "Tennis" /\ ~cfg.allow_tennis
    \/ SportOf(m) = "Football" /\ ~cfg.allow_football

\* C11: a message the parse stage rejects (unknown or disabled sport, no vs
\* line, no bet line, stake below the minimum, quoted odds below the
\* threshold) yields no signal and no sportsbook call: the run goes on to
\* the fixture query only when none of these holds, and a run without a
\* signal ends ignored with no fixture, line or placement request.
RejectedMessageStopsAtParse ==
    /\ pc = "fixtures" =>
          /\ SportOf(message_text) # "Other"
          /\ ~SportDisabled(message_text, config)
          /\ message_text.vs /\ message_text.bet
          /\ ~FloatLt(StakeEur(message_text, config), config.min_stake * 10000)
          /\ ~FloatLt(message_text.odds + config.odds_tolerance,
                      MinOddsOf(message_text))
    /\ (pc # "idle" /\ (\/ SportOf(message_text) = "Other"
                        \/ ~message_text.vs
                        \/ ~message_text.bet)) => ~Parsed
    /\ (pc # "idle" /\ ~Parsed) =>
          /\ pc = "done"
          /\ calls = <<>>
          /\ line_req = NoLineReq
          /\ payload = NoPayload
          /\ notes = <<"ignored">>
    /\ calls # <<>> => Parsed

RejectedMessageStopsAtParse_witness ==
    /\ pc = "done"
    /\ ~Parsed
    /\ calls = <<>>
    /\ SportOf(message_text) = "Tennis"
    /\ ~config.allow_tennis
    /\ message_text.vs /\ message_text.bet

\* parse_message has run its local part for the message and nothing else
\* has happened since: the config is the one it read.
JustParsed == pc \in {"fixtures", "done"} /\ calls = <<>>

\* base_stake is 5 and both sports are enabled.
ScenarioConfig ==
    config.base_stake = 500 /\ config.allow_tennis /\ config.allow_football

\* The signal of the sample tip.
ScenarioSignal ==
    /\ Parsed
    /\ pc = "fixtures"
    /\ bet_info.stake = 1000
    /\ bet_info.selection = RogerFederer
    /\ bet_info.selection_type = "home"
    /\ bet_info.market_type = "ML Match"

\* C12 as stated: the three-line sample tip parses into a signal with stake
\* 10.00, selection "Roger Federer", side home, market moneyline.
ScenarioAYieldsSignal ==
    (JustParsed /\ ScenarioConfig /\ message_text = ScenarioA) => ScenarioSignal

\* C12 amended: the sample tip with a line holding the keyword "Tennis"
\* parses into that signal; without a sport keyword it is rejected.
ScenarioAWithKeywordYieldsSignal ==
    /\ (JustParsed /\ ScenarioConfig /\ message_text = ScenarioATennis) =>
          ScenarioSignal
    /\ (JustParsed /\ message_text = ScenarioA) =>
          ~Parsed /\ notes = <<"ignored">>

ScenarioAWithKeywordYieldsSignal_witness ==
    /\ message_text = ScenarioATennis
    /\ ScenarioConfig
    /\ pc = "fixtures"
    /\ bet_info.stake = 1000

\* The message passes every test of the parse stage but the one on the stake.
OnlyStakeDecides ==
    /\ JustParsed
    /\ SportOf(message_text) # "Other"
    /\ ~SportDisabled(message_text, config)
    /\ message_text.vs /\ message_text.bet
    /\ ~FloatLt(message_text.odds + config.odds_tolerance,
                MinOddsOf(message_text))

\* C13: a signal's stake is base_stake * units rounded to 2 decimals, and a
\* message is rejected for its stake exactly when that rounded amount is
\* below min_stake.
StakeRuleOnRoundedAmount ==
    OnlyStakeDecides =>
        /\ Parsed => bet_info.stake = Round2(StakeEur(message_text, config))
        /\ Parsed <=>
              ~FloatLt(Round2(StakeEur(message_text, config)), config.min_stake)

\* TEAM1 for the home side, TEAM2 for the away side.
TeamOf(side) == IF side = "home" THEN "TEAM1" ELSE "TEAM2"

\* C14: the side of a signal is home exactly when the selection equals the
\* home team ignoring case and surrounding whitespace, and that side is the
\* team of the line query and of the placement request.
SelectionSideIgnoresCase ==
    Parsed =>
        /\ bet_info.selection_type = "home" <=>
              Lower(Strip(message_text.selection)) =
                  Lower(Strip(message_text.home))
        /\ line_req # NoLineReq => line_req.team = TeamOf(bet_info.selection_type)
        /\ Placed => payload.team = TeamOf(bet_info.selection_type)

\* C15: after any sequence of commands, min_stake > 0 and
\* odds_tolerance >= 0.
ConfigStaysValid ==
    /\ FloatLt(0, config.min_stake)
    /\ ~FloatLt(config.odds_tolerance, 0) /\ config.odds_tolerance # NaN

\* A step of the handler's command branch.
CommandStep == commands' = commands + 1

\* C16: a /stake command below the minimum changes neither the config nor
\* config.json; base_stake >= min_stake holds after every command; and
\* after every command that changed the config, config.json equals it.
StakeCommandKeepsMinimum ==
    [][CommandStep =>
          /\ reply' = "stake_minimum" => config' = config /\ saved' = saved
          /\ config'.base_stake # NaN
          /\ config'.base_stake >= config'.min_stake
          /\ reply' \in {"stake_updated", "sports_updated", "odds_updated"} =>
                saved' = config']_vars

Moneyline == bet_info.market_type = "ML Match"

\* C17: the event the resolver of parse_message matches for a moneyline
\* signal is a top-level event (parentId absent or zero).
MoneylineMatchesTopLevelEvent ==
    (pc = "line" /\ Moneyline) => Falsy(bet_info.parentId)

\* The line query is the last call made: bet_info still holds what the
\* resolver of parse_message stored.
LineJustQueried == calls # <<>> /\ calls[Len(calls)].api = "line"

\* C18: the line query carries the parent event id for a moneyline signal
\* whose event has a parent, else the event's own id; its handicap is 0 for
\* moneyline and the signal's handicap for spread.
LineQueryKeys ==
    LineJustQueried =>
        /\ line_req.eventId =
              IF Moneyline /\ ~Falsy(bet_info.parentId)
              THEN bet_info.parentId ELSE bet_info.eventId
        /\ Moneyline => line_req.handicap = 0
        /\ (~Moneyline /\ bet_info.handicap # None) =>
              line_req.handicap = bet_info.handicap

\* C19: a placement request carries neither handicap nor altLineId for
\* moneyline; for spread it carries a handicap and the altLineId of the
\* line query.
PlacementHandicapRule ==
    Placed =>
        /\ Moneyline => payload.handicap = None /\ payload.altLineId = None
        /\ ~Moneyline =>
              /\ payload.handicap # None
              /\ payload.altLineId = line_data.altLineId

\* C20: handler runs never interleave: the run for a later message (here a
\* command, which may write the config) takes no step while the run for an
\* earlier message is still in the pipeline.
RunsNeverInterleave == [][CommandStep => pc = "idle"]_vars

====
